---------------------------- MODULE Spec2Model ----------------------------
(***************************************************************************)
(* rs-port-forward: TCP port forwarding relay with a broadcast bus of      *)
(* lifecycle events and a batching SQLite writer.                          *)
(*                                                                         *)
(* The model follows src/src/main.rs: main (channel creation, listener     *)
(* spawn, writer subscription and writer task), port_forward (accept       *)
(* loop), handle_connection (dial, two racing copy loops, events), and     *)
(* src/src/db.rs: insert_connection_rows.  The tokio broadcast channel is  *)
(* modelled as the ring buffer it is: a slot per position modulo the       *)
(* capacity, a tail position, one cursor per receiver.                     *)
(***************************************************************************)
EXTENDS Integers, Sequences, FiniteSets, TLC

\* ------------------------------------------------------------- bounds
\* Number of connections the listener accepts in a run.
MaxConns == 1
\* Number of failing accept() calls in a run.
MaxAcceptErrors == 1
\* Largest byte count one direction reads in a run (per read and in total).
MaxBytes == 2
\* Capacity of the broadcast channel (1024 in main.rs, scaled down).
BusCapacity == 2
\* Largest configured max_buffer_count.
MaxBufferCount == 2
\* Most rows of the connections table a query reads.
MaxRows == 3
\* Largest timestamp (epoch seconds) of a row the query reads.
MaxTs == 2
\* Largest byte counter of a row the query reads.
MaxRowBytes == 1

Conns == 1..MaxConns
Dirs == {"a_to_b", "b_to_a"}
NoAddr == "None"
\* from.peer_addr().ok(): the peer address, or None when unavailable.
PeerAddrs == {NoAddr, "10.0.0.1"}
\* The client_addr column: NULL (None), or an address.
QueryAddrs == PeerAddrs \cup {"10.0.0.2"}
\* Timestamps a query window is given.
Times == 0..(MaxTs + 1)

VARIABLES
  main_pc,          \* main: "spawn_listeners" | "spawn_writer" | "wait" | "exited"
  db,               \* Option<SharedDb>: TRUE when the SQLite store was opened
  max_count,        \* config.max_buffer_count
  listener_pc,      \* port_forward: "none" | "bind" | "accept" | "failed" | "stopped"
  accept_errors,    \* failing accept() calls so far
  spawned,          \* handle_connection tasks spawned so far
  conn_pc,          \* handle_connection: "unborn" | "dial" | "relay" |
                    \*   "settle" | "done"
  from_peer,        \* from.peer_addr().ok() of each connection
  loop_st,          \* each copy loop: awaiting "read" | "write"
  idle_expired,     \* the idle timer of the pending read has expired
  bytes_from_to,    \* counter of the client -> remote loop
  bytes_to_from,    \* counter of the remote -> client loop
  read_total,       \* history: bytes each socket read has returned
  ended_by,         \* history: how the loop that settled the race returned
  buffer,           \* broadcast ring buffer: slot -> [pos, val]
  tail_pos,         \* broadcast tail position (number of stored sends)
  closed,           \* every Sender has been dropped
  rx_count,         \* live Receivers (_log_rx, and the writer's rx)
  rx_next,          \* the writer's receiver cursor, -1 before subscribe
  published,        \* history: every event handed to log_tx.send, in order
  writer_pc,        \* writer task: "none" | "check" | "flush_size" | "select" |
                    \*   "flush_deadline" | "flush_close" | "stopped"
  buf,              \* the writer's batch of ConnectionRow
  deadline_elapsed, \* sleep_until(deadline) is ready
  store,            \* rows of the connections table, in insertion order
  sub_pos,          \* history: published count when the writer subscribed
  received,         \* history: events rx.recv() returned Ok, in order
  missed,           \* history: events skipped, as reported by Lagged(n)
  stop_cause,       \* history: the RecvError that ended the writer
  flush_failed,     \* history: some insert_connection_rows call failed
  flushes           \* history: the flush attempts, [trigger, first, rows, ok,
                    \*   at]: what triggered it, the index in `received` of
                    \*   the event of its first row, the batch, whether the
                    \*   insert returned Ok, the store's length before it
VARIABLES
  table,            \* the connections table a query reads: rows [ts,
                    \*   client_addr, bytes_from_to, bytes_to_from]
  q_args,           \* <<start_s, end_s>> of the last query, <<>> before it
  q_result          \* the Vec<ClientTraffic> the last query returned

busVars == <<buffer, tail_pos, closed, rx_count, published>>
relayVars == <<conn_pc, from_peer, loop_st, idle_expired, bytes_from_to,
               bytes_to_from, read_total, ended_by>>
listenerVars == <<listener_pc, accept_errors, spawned>>
writerVars == <<rx_next, writer_pc, buf, deadline_elapsed, store, sub_pos,
                received, missed, stop_cause, flush_failed, flushes>>
mainVars == <<main_pc, db, max_count>>
queryVars == <<table, q_args, q_result>>
vars == <<mainVars, listenerVars, relayVars, busVars, writerVars, queryVars>>

\* ------------------------------------------------------------- events
NoError == ""
TimeoutText(d) == IF d = "a_to_b" THEN "Connection timeout (client->remote)"
                  ELSE "Connection timeout (remote->client)"

\* LogEvent variants (events.rs).  conn is the connection the event belongs
\* to (0: the listener itself); the rule's name, ports and remote address
\* are the same in every event of the one rule and are left out.
ConnectionStarted(c, peer) ==
  [kind |-> "ConnectionStarted", conn |-> c, client_addr |-> peer,
   bytes_from_to |-> 0, bytes_to_from |-> 0, error |-> NoError]
ConnectionClosed(c, peer, ft, tf) ==
  [kind |-> "ConnectionClosed", conn |-> c, client_addr |-> peer,
   bytes_from_to |-> ft, bytes_to_from |-> tf, error |-> NoError]
ConnectionError(c, peer, e) ==
  [kind |-> "ConnectionError", conn |-> c, client_addr |-> peer,
   bytes_from_to |-> 0, bytes_to_from |-> 0, error |-> e]
ConnectionTimeout(c, peer, e) ==
  [kind |-> "ConnectionTimeout", conn |-> c, client_addr |-> peer,
   bytes_from_to |-> 0, bytes_to_from |-> 0, error |-> e]

EmptySlot == [pos |-> -1, val |-> NoError]

\* ------------------------------------------------------------- bus
\* Mutant: a bounded queue that makes the sender wait for the receiver.
send_blocking(ev) ==
  /\ rx_next >= 0 => tail_pos - rx_next < BusCapacity
  /\ buffer' = [buffer EXCEPT ![tail_pos % BusCapacity] =
                                [pos |-> tail_pos, val |-> ev]]
  /\ tail_pos' = tail_pos + 1
  /\ published' = Append(published, ev)
  /\ UNCHANGED <<closed, rx_count>>

\* broadcast::Sender::send: with no live receiver the value is returned in
\* Err (and discarded by `let _ =`); otherwise it is stored in the slot of
\* the tail position, overwriting the value BusCapacity positions older, and
\* the tail advances.  It never waits for a receiver.
send(ev) ==
  /\ IF rx_count = 0
     THEN UNCHANGED <<buffer, tail_pos>>
     ELSE /\ buffer' = [buffer EXCEPT ![tail_pos % BusCapacity] =
                                        [pos |-> tail_pos, val |-> ev]]
          /\ tail_pos' = tail_pos + 1
  /\ published' = Append(published, ev)
  /\ UNCHANGED <<closed, rx_count>>

\* ------------------------------------------------------------- main
\* main.rs 334-348: one listener task per rule is spawned before the writer
\* subscribes.
MainSpawnListeners ==
  /\ main_pc = "spawn_listeners"
  /\ main_pc' = "spawn_writer"
  /\ listener_pc' = "bind"
  /\ UNCHANGED <<db, max_count, queryVars,
                 accept_errors, spawned, relayVars, busVars,
                 writerVars>>

\* ------------------------------------------------------------- listener
\* port_forward: TcpListener::bind(..).await?
Bind ==
  /\ listener_pc = "bind"
  /\ \E ok \in BOOLEAN : listener_pc' = IF ok THEN "accept" ELSE "failed"
  /\ UNCHANGED <<mainVars, queryVars,
                 accept_errors, spawned, relayVars, busVars,
                 writerVars>>

\* port_forward: accept() returned a socket; handle_connection is spawned,
\* records the peer address and starts dialling.
AcceptOk ==
  /\ listener_pc = "accept"
  /\ spawned < MaxConns
  /\ spawned' = spawned + 1
  /\ \E p \in PeerAddrs : from_peer' = [from_peer EXCEPT ![spawned + 1] = p]
  /\ conn_pc' = [conn_pc EXCEPT ![spawned + 1] = "dial"]
  /\ UNCHANGED <<mainVars, queryVars,
                 listener_pc, accept_errors, loop_st, idle_expired,
                 bytes_from_to, bytes_to_from, read_total, ended_by, busVars,
                 writerVars>>

\* Mutant: a failed accept() is returned with `?` and ends the listener.
AcceptErr_fatal ==
  /\ listener_pc = "accept"
  /\ accept_errors < MaxAcceptErrors
  /\ accept_errors' = accept_errors + 1
  /\ listener_pc' = "failed"
  /\ send(ConnectionError(0, NoAddr, "accept error"))
  /\ UNCHANGED <<mainVars, queryVars, spawned, relayVars, writerVars>>

\* port_forward: accept() failed; ConnectionError without client address,
\* and the loop continues.
AcceptErr ==
  /\ listener_pc = "accept"
  /\ accept_errors < MaxAcceptErrors
  /\ accept_errors' = accept_errors + 1
  /\ send(ConnectionError(0, NoAddr, "accept error"))
  /\ UNCHANGED <<mainVars, queryVars,
                 listener_pc, spawned, relayVars, writerVars>>

\* ------------------------------------------------------------- relay
\* Mutant: a failed dial is reported and tried again.
DialErr_retry(c) ==
  /\ conn_pc[c] = "dial"
  /\ Len(published) < 4
  /\ send(ConnectionError(c, from_peer[c], "dial error"))
  /\ UNCHANGED <<mainVars, queryVars, listenerVars, relayVars, writerVars>>

\* handle_connection: TcpStream::connect failed.
DialErr(c) ==
  /\ conn_pc[c] = "dial"
  /\ conn_pc' = [conn_pc EXCEPT ![c] = "done"]
  /\ send(ConnectionError(c, from_peer[c], "dial error"))
  /\ UNCHANGED <<mainVars, queryVars,
                 listenerVars, from_peer, loop_st, idle_expired,
                 bytes_from_to, bytes_to_from, read_total, ended_by, writerVars>>

\* Mutant: ConnectionStarted only for a connection with a peer address.
DialOk_peer_only(c) ==
  /\ conn_pc[c] = "dial"
  /\ conn_pc' = [conn_pc EXCEPT ![c] = "relay"]
  /\ IF from_peer[c] # NoAddr
     THEN send(ConnectionStarted(c, from_peer[c]))
     ELSE UNCHANGED busVars
  /\ UNCHANGED <<mainVars, queryVars,
                 listenerVars, from_peer, loop_st, idle_expired,
                 bytes_from_to, bytes_to_from, read_total, ended_by, writerVars>>

\* handle_connection: connect succeeded; counters start at 0, Started is
\* published, both loops are about to read.
DialOk(c) ==
  /\ conn_pc[c] = "dial"
  /\ conn_pc' = [conn_pc EXCEPT ![c] = "relay"]
  /\ send(ConnectionStarted(c, from_peer[c]))
  /\ UNCHANGED <<mainVars, queryVars,
                 listenerVars, from_peer, loop_st, idle_expired,
                 bytes_from_to, bytes_to_from, read_total, ended_by, writerVars>>

\* Mutant: the counter is assigned, not incremented.
CountRead_assign(c, d, n) ==
  /\ bytes_from_to' = IF d = "a_to_b"
                      THEN [bytes_from_to EXCEPT ![c] = n]
                      ELSE bytes_from_to
  /\ bytes_to_from' = IF d = "b_to_a"
                      THEN [bytes_to_from EXCEPT ![c] = n]
                      ELSE bytes_to_from

\* The counter a loop increments after a read of n > 0 bytes.
CountRead(c, d, n) ==
  /\ bytes_from_to' = IF d = "a_to_b"
                      THEN [bytes_from_to EXCEPT ![c] = @ + n]
                      ELSE bytes_from_to
  /\ bytes_to_from' = IF d = "b_to_a"
                      THEN [bytes_to_from EXCEPT ![c] = @ + n]
                      ELSE bytes_to_from

Counter(c, d) == IF d = "a_to_b" THEN bytes_from_to[c] ELSE bytes_to_from[c]

\* Both loop futures are dropped where they stand.
DropLoops(c) ==
  /\ loop_st' = [loop_st EXCEPT ![c] = [d \in Dirs |-> "read"]]
  /\ idle_expired' = [idle_expired EXCEPT ![c] = [d \in Dirs |-> FALSE]]

\* The event published after the select! (main.rs 231-240).
ClosedEvent(c) ==
  ConnectionClosed(c, from_peer[c], bytes_from_to[c], bytes_to_from[c])

\* Mutant: a loop that returned Err is reported as a ConnectionError, and
\* the task returns the error.
select_settled_err_event(c, how) ==
  /\ conn_pc' = [conn_pc EXCEPT ![c] = "done"]
  /\ ended_by' = [ended_by EXCEPT ![c] = how]
  /\ DropLoops(c)
  /\ IF how = "eof"
     THEN send(ClosedEvent(c))
     ELSE send(ConnectionError(c, from_peer[c], how))
  /\ UNCHANGED <<mainVars, queryVars, listenerVars, from_peer, bytes_from_to,
                 bytes_to_from, read_total, writerVars>>

\* Mutant: ConnectionClosed only when the loop returned Ok(()).
select_settled_ok_only(c, how) ==
  /\ conn_pc' = [conn_pc EXCEPT ![c] = "done"]
  /\ ended_by' = [ended_by EXCEPT ![c] = how]
  /\ DropLoops(c)
  /\ IF how = "eof" THEN send(ClosedEvent(c)) ELSE UNCHANGED busVars
  /\ UNCHANGED <<mainVars, queryVars, listenerVars, from_peer, bytes_from_to,
                 bytes_to_from, read_total, writerVars>>

\* A loop returned without publishing: select! settles in the same poll,
\* the other loop is dropped, and ConnectionClosed carries both counters.
select_settled(c, how) ==
  /\ conn_pc' = [conn_pc EXCEPT ![c] = "done"]
  /\ ended_by' = [ended_by EXCEPT ![c] = how]
  /\ DropLoops(c)
  /\ send(ClosedEvent(c))
  /\ UNCHANGED <<mainVars, queryVars, listenerVars, from_peer, bytes_from_to,
                 bytes_to_from, read_total, writerVars>>

\* Mutant: one idle timer per direction, started once and never restarted.
ReadOk_keep_timer(c, d, n) ==
  /\ conn_pc[c] = "relay"
  /\ loop_st[c][d] = "read"
  /\ Counter(c, d) + n <= MaxBytes
  /\ CountRead(c, d, n)
  /\ read_total' = [read_total EXCEPT ![c][d] = @ + n]
  /\ loop_st' = [loop_st EXCEPT ![c][d] = "write"]
  /\ UNCHANGED <<mainVars, queryVars, listenerVars, conn_pc, from_peer,
                 idle_expired, ended_by, busVars, writerVars>>

\* timeout(idle_timeout, reader.read(..)) returned Ok(Ok(n)), n > 0: the
\* counter is incremented, then write_all is awaited.  The read is polled
\* before the timer, so data that is there wins over an expired timer.
ReadOk(c, d, n) ==
  /\ conn_pc[c] = "relay"
  /\ loop_st[c][d] = "read"
  /\ Counter(c, d) + n <= MaxBytes
  /\ CountRead(c, d, n)
  /\ read_total' = [read_total EXCEPT ![c][d] = @ + n]
  /\ loop_st' = [loop_st EXCEPT ![c][d] = "write"]
  /\ idle_expired' = [idle_expired EXCEPT ![c][d] = FALSE]
  /\ UNCHANGED <<mainVars, queryVars,
                 listenerVars, conn_pc, from_peer, ended_by, busVars,
                 writerVars>>

\* read returned Ok(Ok(0)): EOF, the loop returns Ok(()).
ReadEof(c, d) ==
  /\ conn_pc[c] = "relay"
  /\ loop_st[c][d] = "read"
  /\ select_settled(c, "eof")

\* read returned Ok(Err(e)): the loop returns Err(e).
ReadErr(c, d) ==
  /\ conn_pc[c] = "relay"
  /\ loop_st[c][d] = "read"
  /\ select_settled(c, "read_err")

\* The idle timer of a pending read runs out (time passing).
IdleExpire(c, d) ==
  /\ conn_pc[c] = "relay"
  /\ loop_st[c][d] = "read"
  /\ ~idle_expired[c][d]
  /\ idle_expired' = [idle_expired EXCEPT ![c][d] = TRUE]
  /\ UNCHANGED <<mainVars, queryVars, listenerVars, conn_pc, from_peer, loop_st,
                 bytes_from_to, bytes_to_from, read_total, ended_by, busVars,
                 writerVars>>

\* Mutant: the loops are joined, not raced: a timed-out loop publishes and
\* the relay goes on with the other loop.
ReadTimeout_join(c, d) ==
  /\ conn_pc[c] = "relay"
  /\ loop_st[c][d] = "read"
  /\ idle_expired[c][d]
  /\ Len(published) < 4
  /\ ended_by' = [ended_by EXCEPT ![c] = "timeout"]
  /\ idle_expired' = [idle_expired EXCEPT ![c][d] = FALSE]
  /\ send(ConnectionTimeout(c, from_peer[c], TimeoutText(d)))
  /\ UNCHANGED <<mainVars, queryVars, listenerVars, conn_pc, from_peer, loop_st,
                 bytes_from_to, bytes_to_from, read_total, writerVars>>

\* Mutant: the loop that lost the race is not dropped when the race settles,
\* so its expired timer is still acted on.
ReadTimeout_undropped(c, d) ==
  /\ conn_pc[c] \in {"relay", "settle"}
  /\ loop_st[c][d] = "read"
  /\ idle_expired[c][d]
  /\ conn_pc' = [conn_pc EXCEPT ![c] = "settle"]
  /\ ended_by' = [ended_by EXCEPT ![c] = "timeout"]
  /\ idle_expired' = [idle_expired EXCEPT ![c][d] = FALSE]
  /\ send(ConnectionTimeout(c, from_peer[c], TimeoutText(d)))
  /\ UNCHANGED <<mainVars, queryVars,
                 listenerVars, from_peer, loop_st,
                 bytes_from_to, bytes_to_from, read_total, writerVars>>

\* timeout(..) returned Err(Elapsed): ConnectionTimeout is published and the
\* loop returns Err(TimedOut); select! has settled, the other loop is not
\* polled again, and ConnectionClosed is the next thing this task sends.
ReadTimeout(c, d) ==
  /\ conn_pc[c] = "relay"
  /\ loop_st[c][d] = "read"
  /\ idle_expired[c][d]
  /\ conn_pc' = [conn_pc EXCEPT ![c] = "settle"]
  /\ ended_by' = [ended_by EXCEPT ![c] = "timeout"]
  /\ send(ConnectionTimeout(c, from_peer[c], TimeoutText(d)))
  /\ UNCHANGED <<mainVars, queryVars,
                 listenerVars, from_peer, loop_st, idle_expired,
                 bytes_from_to, bytes_to_from, read_total, writerVars>>

\* After a timeout: ConnectionClosed with both counters (main.rs 231-240).
Settle(c) ==
  /\ conn_pc[c] = "settle"
  /\ conn_pc' = [conn_pc EXCEPT ![c] = "done"]
  /\ DropLoops(c)
  /\ send(ClosedEvent(c))
  /\ UNCHANGED <<mainVars, queryVars, listenerVars, from_peer, bytes_from_to,
                 bytes_to_from, read_total, ended_by, writerVars>>

\* Mutant: the loops are tasks of their own, so a write goes on after the
\* other loop has settled the relay.
WriteOk_detached(c, d) ==
  /\ conn_pc[c] \in {"relay", "settle"}
  /\ loop_st[c][d] = "write"
  /\ loop_st' = [loop_st EXCEPT ![c][d] = "read"]
  /\ UNCHANGED <<mainVars, queryVars, listenerVars, conn_pc, from_peer,
                 idle_expired, bytes_from_to, bytes_to_from, read_total,
                 ended_by, busVars, writerVars>>

\* write_all(..).await returned Ok: back to the read, with a fresh timer.
WriteOk(c, d) ==
  /\ conn_pc[c] = "relay"
  /\ loop_st[c][d] = "write"
  /\ loop_st' = [loop_st EXCEPT ![c][d] = "read"]
  /\ UNCHANGED <<mainVars, queryVars,
                 listenerVars, conn_pc, from_peer, idle_expired,
                 bytes_from_to, bytes_to_from, read_total, ended_by, busVars,
                 writerVars>>

\* write_all(..).await? returned Err: the loop returns it.
WriteErr(c, d) ==
  /\ conn_pc[c] = "relay"
  /\ loop_st[c][d] = "write"
  /\ select_settled(c, "write_err")

handle_connection(c) ==
  \/ DialErr(c)
  \/ DialOk(c)
  \/ \E d \in Dirs :
       \/ \E n \in 1..MaxBytes : ReadOk(c, d, n)
       \/ ReadEof(c, d)
       \/ ReadErr(c, d)
       \/ IdleExpire(c, d)
       \/ ReadTimeout(c, d)
       \/ WriteOk(c, d)
       \/ WriteErr(c, d)
  \/ Settle(c)

port_forward == Bind \/ AcceptOk \/ AcceptErr

\* ------------------------------------------------------------- store
\* The rows the statement loop of insert_connection_rows has executed inside
\* the transaction when it ends.  fail = 0: every execute and the commit
\* return Ok; fail = k in 1..Len(rows): the k-th execute returns Err (opening
\* the transaction or preparing the statement failing is the case k = 1:
\* nothing executed); fail = Len(rows) + 1: commit returns Err.
tx_rows(rows, fail) ==
  IF fail = 0 THEN rows ELSE SubSeq(rows, 1, fail - 1)

\* Mutant: a transaction is opened for an empty slice as well.
Transacts_always(rows) == TRUE

\* `if rows.is_empty() { return Ok(()) }` (db.rs 116-118): only a call with
\* rows gets as far as opening a transaction.
Transacts(rows) == rows # <<>>

\* Mutant: no transaction, every executed insert is committed on its own.
insert_connection_rows_autocommit(rows, fail) ==
  /\ store' = IF rows # <<>> THEN store \o tx_rows(rows, fail) ELSE store
  /\ flush_failed' = (flush_failed \/ (rows # <<>> /\ fail # 0))

\* Mutant: the rows of the slice are inserted last to first.
insert_connection_rows_reversed(rows, fail) ==
  /\ store' = IF rows # <<>> /\ fail = 0
              THEN store \o [i \in 1..Len(rows) |-> rows[Len(rows) + 1 - i]]
              ELSE store
  /\ flush_failed' = (flush_failed \/ (rows # <<>> /\ fail # 0))

\* insert_connection_rows (db.rs): nothing for an empty slice; otherwise every
\* row is inserted in one transaction, in slice order; tx.commit() makes the
\* executed rows part of the store, and a `?` that returns early drops the
\* transaction, which rolls the executed rows back.
insert_connection_rows(rows, fail) ==
  /\ store' = IF Transacts(rows) /\ fail = 0
              THEN store \o tx_rows(rows, fail)
              ELSE store
  /\ flush_failed' = (flush_failed \/ (Transacts(rows) /\ fail # 0))

\* The outcomes one insert_connection_rows call can have: an empty slice
\* returns Ok before the store is touched.
InsertOutcomes(rows) == IF Transacts(rows) THEN 0..(Len(rows) + 1) ELSE {0}

\* One insert_connection_rows(&db, &buf).await of the writer task, with the
\* transaction it opens recorded as a flush attempt; a call that returns
\* before opening one is no flush attempt.
flush(trigger, fail) ==
  /\ insert_connection_rows(buf, fail)
  /\ flushes' = IF Transacts(buf)
                THEN Append(flushes, [trigger |-> trigger,
                                      first |-> Len(received) - Len(buf) + 1,
                                      rows |-> buf,
                                      ok |-> (fail = 0),
                                      at |-> Len(store)])
                ELSE flushes

\* ------------------------------------------------------------- writer
\* Mutant: the receiver starts at the oldest position, not at the tail.
MainSpawnWriter_replay ==
  /\ main_pc = "spawn_writer"
  /\ main_pc' = "wait"
  /\ IF db
     THEN /\ rx_next' = 0
          /\ rx_count' = rx_count + 1
          /\ sub_pos' = Len(published)
          /\ writer_pc' = "check"
     ELSE UNCHANGED <<rx_next, rx_count, sub_pos, writer_pc>>
  /\ UNCHANGED <<db, max_count, queryVars,
                 listenerVars, relayVars, buffer, tail_pos,
                 closed, published, buf, deadline_elapsed, store, received,
                 missed, stop_cause, flush_failed, flushes>>

\* main.rs 351-355: with a store, main subscribes the writer's receiver at
\* the current tail (no replay) and spawns the writer task with an empty
\* batch and a fresh deadline.
MainSpawnWriter ==
  /\ main_pc = "spawn_writer"
  /\ main_pc' = "wait"
  /\ IF db
     THEN /\ rx_next' = tail_pos
          /\ rx_count' = rx_count + 1
          /\ sub_pos' = Len(published)
          /\ writer_pc' = "check"
     ELSE UNCHANGED <<rx_next, rx_count, sub_pos, writer_pc>>
  /\ UNCHANGED <<db, max_count, queryVars,
                 listenerVars, relayVars, buffer, tail_pos,
                 closed, published, buf, deadline_elapsed, store, received,
                 missed, stop_cause, flush_failed, flushes>>

\* Mutant: the ConnectionTimeout arm writes the kind of the arm above it.
RowOf_timeout_as_error(ev) ==
  [log_name |-> CASE ev.kind = "ConnectionClosed" -> "connection_closed"
                  [] ev.kind = "ConnectionError" -> "connection_error"
                  [] ev.kind = "ConnectionTimeout" -> "connection_error"
                  [] ev.kind = "ConnectionStarted" -> "connection_started",
   conn |-> ev.conn,
   client_addr |-> ev.client_addr,
   bytes_from_to |-> IF ev.kind = "ConnectionClosed" THEN ev.bytes_from_to ELSE 0,
   bytes_to_from |-> IF ev.kind = "ConnectionClosed" THEN ev.bytes_to_from ELSE 0]

\* The ConnectionRow the writer builds from an event (main.rs 369-420).
RowOf(ev) ==
  [log_name |-> CASE ev.kind = "ConnectionClosed" -> "connection_closed"
                  [] ev.kind = "ConnectionError" -> "connection_error"
                  [] ev.kind = "ConnectionTimeout" -> "connection_timeout"
                  [] ev.kind = "ConnectionStarted" -> "connection_started",
   conn |-> ev.conn,
   client_addr |-> ev.client_addr,
   bytes_from_to |-> IF ev.kind = "ConnectionClosed" THEN ev.bytes_from_to ELSE 0,
   bytes_to_from |-> IF ev.kind = "ConnectionClosed" THEN ev.bytes_to_from ELSE 0]

\* Mutant: a receiver that does not notice an overwritten slot.
recv_result_no_lag ==
  IF rx_next = tail_pos
  THEN (IF closed THEN "Closed" ELSE "Empty")
  ELSE "Ok"

\* broadcast::Receiver::recv at cursor rx_next: "Empty" (pending) or
\* "Closed" at the tail, "Lagged" when the slot of rx_next already holds a
\* later position, "Ok" otherwise.
recv_result ==
  IF rx_next = tail_pos
  THEN (IF closed THEN "Closed" ELSE "Empty")
  ELSE IF buffer[rx_next % BusCapacity].pos # rx_next THEN "Lagged" ELSE "Ok"

\* Mutant: the size check flushes only once the batch exceeds max_count.
WriterCheck_gt ==
  /\ writer_pc = "check"
  /\ writer_pc' = IF Len(buf) > max_count THEN "flush_size" ELSE "select"
  /\ UNCHANGED <<mainVars, queryVars,
                 listenerVars, relayVars, busVars, rx_next, buf,
                 deadline_elapsed, store, sub_pos, received, missed,
                 stop_cause, flush_failed, flushes>>

\* Top of the writer loop (main.rs 359): the size check.
WriterCheck ==
  /\ writer_pc = "check"
  /\ writer_pc' = IF Len(buf) >= max_count THEN "flush_size" ELSE "select"
  /\ UNCHANGED <<mainVars, queryVars,
                 listenerVars, relayVars, busVars, rx_next, buf,
                 deadline_elapsed, store, sub_pos, received, missed,
                 stop_cause, flush_failed, flushes>>

\* Mutant: the size flush does not clear the batch.
WriterFlushSize_no_clear ==
  /\ writer_pc = "flush_size"
  /\ Len(flushes) < 4
  /\ \E fail \in InsertOutcomes(buf) : flush("size", fail)
  /\ deadline_elapsed' = FALSE
  /\ writer_pc' = "select"
  /\ UNCHANGED <<mainVars, queryVars,
                 listenerVars, relayVars, busVars, rx_next, buf,
                 sub_pos, received, missed, stop_cause>>

\* Mutant: a batch whose insert failed is kept and flushed again.
WriterFlushSize_retry ==
  /\ writer_pc = "flush_size"
  /\ Len(flushes) < 4
  /\ \E fail \in InsertOutcomes(buf) :
       /\ flush("size", fail)
       /\ buf' = IF fail = 0 THEN <<>> ELSE buf
  /\ deadline_elapsed' = FALSE
  /\ writer_pc' = "select"
  /\ UNCHANGED <<mainVars, queryVars,
                 listenerVars, relayVars, busVars, rx_next, sub_pos,
                 received, missed, stop_cause>>

\* main.rs 360-364: the size flush returned; the batch is cleared and the
\* deadline reset whether or not the insert succeeded.
WriterFlushSize ==
  /\ writer_pc = "flush_size"
  /\ \E fail \in InsertOutcomes(buf) : flush("size", fail)
  /\ buf' = <<>>
  /\ deadline_elapsed' = FALSE
  /\ writer_pc' = "select"
  /\ UNCHANGED <<mainVars, queryVars,
                 listenerVars, relayVars, busVars, rx_next, sub_pos,
                 received, missed, stop_cause>>

\* The flush deadline passes (time passing).
DeadlineElapse ==
  /\ writer_pc \in {"check", "flush_size", "select"}
  /\ ~deadline_elapsed
  /\ deadline_elapsed' = TRUE
  /\ UNCHANGED <<mainVars, queryVars, listenerVars, relayVars, busVars, rx_next,
                 writer_pc, buf, store, sub_pos, received, missed, stop_cause,
                 flush_failed, flushes>>

\* Mutant: after the push the writer goes back to select! without passing
\* the size check.
WriterRecvEvent_no_check ==
  /\ writer_pc = "select"
  /\ recv_result = "Ok"
  /\ buf' = Append(buf, RowOf(buffer[rx_next % BusCapacity].val))
  /\ received' = Append(received, buffer[rx_next % BusCapacity].val)
  /\ rx_next' = rx_next + 1
  /\ writer_pc' = "select"
  /\ UNCHANGED <<mainVars, queryVars, listenerVars, relayVars, busVars,
                 deadline_elapsed, store, sub_pos, missed, stop_cause,
                 flush_failed, flushes>>

\* select!: rx.recv() returned Ok(event); its row is pushed.
WriterRecvEvent ==
  /\ writer_pc = "select"
  /\ recv_result = "Ok"
  /\ buf' = Append(buf, RowOf(buffer[rx_next % BusCapacity].val))
  /\ received' = Append(received, buffer[rx_next % BusCapacity].val)
  /\ rx_next' = rx_next + 1
  /\ writer_pc' = "check"
  /\ UNCHANGED <<mainVars, queryVars,
                 listenerVars, relayVars, busVars, deadline_elapsed,
                 store, sub_pos, missed, stop_cause, flush_failed, flushes>>

\* The writer task ends: its receiver is dropped.
WriterExit ==
  /\ writer_pc' = "stopped"
  /\ rx_count' = rx_count - 1

\* Mutant: break without the last flush.
WriterRecvErr_no_flush ==
  /\ writer_pc = "select"
  /\ recv_result \in {"Closed", "Lagged"}
  /\ stop_cause' = recv_result
  /\ IF recv_result = "Lagged"
     THEN /\ rx_next' = tail_pos - BusCapacity
          /\ missed' = missed + (tail_pos - BusCapacity - rx_next)
     ELSE UNCHANGED <<rx_next, missed>>
  /\ WriterExit
  /\ UNCHANGED <<mainVars, queryVars,
                 listenerVars, relayVars, buffer, tail_pos, closed,
                 published, buf, deadline_elapsed, store, sub_pos, received,
                 flush_failed, flushes>>

\* select!: rx.recv() returned Err(_), which is RecvError::Closed or
\* RecvError::Lagged(n) (main.rs 421-429): the remaining batch is flushed
\* and the loop is left.  Lagged moves the cursor to the oldest kept value.
WriterRecvErr ==
  /\ writer_pc = "select"
  /\ recv_result \in {"Closed", "Lagged"}
  /\ stop_cause' = recv_result
  /\ IF recv_result = "Lagged"
     THEN /\ rx_next' = tail_pos - BusCapacity
          /\ missed' = missed + (tail_pos - BusCapacity - rx_next)
     ELSE UNCHANGED <<rx_next, missed>>
  /\ IF buf # <<>>
     THEN writer_pc' = "flush_close" /\ UNCHANGED rx_count
     ELSE WriterExit
  /\ UNCHANGED <<mainVars, queryVars,
                 listenerVars, relayVars, buffer, tail_pos, closed,
                 published, buf, deadline_elapsed, store, sub_pos, received,
                 flush_failed, flushes>>

\* main.rs 424-428: the last flush returned; break, which ends the task and
\* drops its batch.
WriterFlushClose ==
  /\ writer_pc = "flush_close"
  /\ \E fail \in InsertOutcomes(buf) : flush(stop_cause, fail)
  /\ buf' = <<>>
  /\ WriterExit
  /\ UNCHANGED <<mainVars, queryVars,
                 listenerVars, relayVars, buffer, tail_pos, closed,
                 published, rx_next, deadline_elapsed, sub_pos, received,
                 missed, stop_cause>>

\* select!: sleep_until(deadline) fired (main.rs 432-440); a non-empty batch
\* is flushed, an empty one only gets a new deadline.
WriterDeadline ==
  /\ writer_pc = "select"
  /\ deadline_elapsed
  /\ IF buf # <<>>
     THEN writer_pc' = "flush_deadline" /\ UNCHANGED deadline_elapsed
     ELSE writer_pc' = "check" /\ deadline_elapsed' = FALSE
  /\ UNCHANGED <<mainVars, queryVars,
                 listenerVars, relayVars, busVars, rx_next, buf,
                 store, sub_pos, received, missed, stop_cause, flush_failed,
                 flushes>>

\* Mutant: the deadline flush leaves its rows in the batch.
WriterFlushDeadline_no_clear ==
  /\ writer_pc = "flush_deadline"
  /\ Len(flushes) < 4
  /\ \E fail \in InsertOutcomes(buf) : flush("deadline", fail)
  /\ deadline_elapsed' = FALSE
  /\ writer_pc' = "check"
  /\ UNCHANGED <<mainVars, queryVars,
                 listenerVars, relayVars, busVars, rx_next, buf, sub_pos,
                 received, missed, stop_cause>>

\* main.rs 434-439: the deadline flush returned; clear, new deadline.
WriterFlushDeadline ==
  /\ writer_pc = "flush_deadline"
  /\ \E fail \in InsertOutcomes(buf) : flush("deadline", fail)
  /\ buf' = <<>>
  /\ deadline_elapsed' = FALSE
  /\ writer_pc' = "check"
  /\ UNCHANGED <<mainVars, queryVars,
                 listenerVars, relayVars, busVars, rx_next, sub_pos,
                 received, missed, stop_cause>>

writer ==
  \/ WriterCheck
  \/ WriterFlushSize
  \/ DeadlineElapse
  \/ WriterRecvEvent
  \/ WriterRecvErr
  \/ WriterFlushClose
  \/ WriterDeadline
  \/ WriterFlushDeadline

\* ------------------------------------------------------------- query
\* The rows a table can hold, and the tables a query is run on.
TableRows ==
  [ts : 0..MaxTs, client_addr : QueryAddrs,
   bytes_from_to : 0..MaxRowBytes, bytes_to_from : 0..MaxRowBytes]
Tables == UNION {[1..n -> TableRows] : n \in 0..MaxRows}

\* Mutant: the window includes its end.
InWindow_closed_end(rows, start_s, end_s) ==
  SelectSeq(rows, LAMBDA r : r.ts >= start_s /\ r.ts <= end_s)

\* WHERE ts >= ?1 AND ts < ?2
InWindow(rows, start_s, end_s) ==
  SelectSeq(rows, LAMBDA r : r.ts >= start_s /\ r.ts < end_s)

\* SUM(col) over the rows of one group, in i64.
RECURSIVE SumOf(_, _, _)
SumOf(rows, addr, col) ==
  IF rows = <<>> THEN 0
  ELSE (IF Head(rows).client_addr = addr THEN Head(rows)[col] ELSE 0)
         + SumOf(Tail(rows), addr, col)

\* (sum.max(0)) as u64
ClampU64(sum) == IF sum < 0 THEN 0 ELSE sum

\* GROUP BY client_addr with the two sums: one ClientTraffic per distinct
\* client_addr, NULL being one value of the column.
GroupByClient(rows) ==
  {[client_addr |-> a,
    bytes_from_to |-> ClampU64(SumOf(rows, a, "bytes_from_to")),
    bytes_to_from |-> ClampU64(SumOf(rows, a, "bytes_to_from"))] :
     a \in {rows[i].client_addr : i \in 1..Len(rows)}}

\* Mutant: ordered by the client-to-remote sum alone.
OrderKey_from_to(g) == g.bytes_from_to

\* ORDER BY sum_from_to + sum_to_from
OrderKey(g) == g.bytes_from_to + g.bytes_to_from

\* The orders in which ORDER BY .. DESC can return the groups: every
\* arrangement with non-increasing keys (SQL leaves the order of equal keys
\* open).
OrderByDesc(groups) ==
  {q \in [1..Cardinality(groups) -> groups] :
     /\ \A g \in groups : \E k \in DOMAIN q : q[k] = g
     /\ \A k \in 1..(Len(q) - 1) : OrderKey(q[k]) >= OrderKey(q[k + 1])}

\* query_traffic_by_client (db.rs 154-192): the results the SELECT can give.
query_traffic_by_client(rows, start_s, end_s) ==
  OrderByDesc(GroupByClient(InWindow(rows, start_s, end_s)))

\* One request: stats_clients_handler calls query_traffic_by_client(db,
\* start, end).  The query changes nothing, so a second request would see
\* what the first one saw; one request per run is followed.
Query(start_s, end_s) ==
  /\ q_args = <<>>
  /\ q_args' = <<start_s, end_s>>
  /\ q_result' \in query_traffic_by_client(table, start_s, end_s)
  /\ UNCHANGED <<table, mainVars, listenerVars, relayVars, busVars, writerVars>>

\* ------------------------------------------------------------- teardown
\* The bus is torn down: with every relay finished, the listener and main
\* give up their Senders, which closes the channel (the "Sender dropped"
\* case of main.rs 421-422).
DropSenders ==
  /\ main_pc = "wait"
  /\ ~closed
  /\ \A c \in Conns : conn_pc[c] \in {"unborn", "done"}
  /\ closed' = TRUE
  /\ main_pc' = "exited"
  /\ listener_pc' = "stopped"
  /\ UNCHANGED <<db, max_count, queryVars,
                 accept_errors, spawned, relayVars, buffer,
                 tail_pos, rx_count, published, writerVars>>

\* The tasks of main after construction.
ProgramInit ==
  /\ main_pc = "spawn_listeners"
  /\ db \in BOOLEAN
  /\ max_count \in 0..MaxBufferCount
  /\ listener_pc = "none"
  /\ accept_errors = 0
  /\ spawned = 0
  /\ conn_pc = [c \in Conns |-> "unborn"]
  /\ from_peer = [c \in Conns |-> NoAddr]
  /\ loop_st = [c \in Conns |-> [d \in Dirs |-> "read"]]
  /\ idle_expired = [c \in Conns |-> [d \in Dirs |-> FALSE]]
  /\ bytes_from_to = [c \in Conns |-> 0]
  /\ bytes_to_from = [c \in Conns |-> 0]
  /\ read_total = [c \in Conns |-> [d \in Dirs |-> 0]]
  /\ ended_by = [c \in Conns |-> "none"]
  /\ buffer = [i \in 0..(BusCapacity - 1) |-> EmptySlot]
  /\ tail_pos = 0
  /\ closed = FALSE
  /\ rx_count = 1
  /\ rx_next = -1
  /\ published = <<>>
  /\ writer_pc = "none"
  /\ buf = <<>>
  /\ deadline_elapsed = FALSE
  /\ store = <<>>
  /\ sub_pos = -1
  /\ received = <<>>
  /\ missed = 0
  /\ stop_cause = "none"
  /\ flush_failed = FALSE
  /\ flushes = <<>>

\* No query has been made.
QueryIdle == q_args = <<>> /\ q_result = <<>>

Init == ProgramInit /\ table = <<>> /\ QueryIdle

Next ==
  \/ MainSpawnListeners
  \/ MainSpawnWriter
  \/ port_forward
  \/ \E c \in Conns : handle_connection(c)
  \/ writer
  \/ DropSenders

Spec == Init /\ [][Next]_vars

\* The relay engine alone: no store is configured (database_path absent or
\* init_db failed), so main starts no writer and nobody receives.
RelayInit == Init /\ db = FALSE /\ max_count = MaxBufferCount

RelayNext ==
  \/ MainSpawnListeners
  \/ MainSpawnWriter
  \/ port_forward
  \/ \E c \in Conns : handle_connection(c)
  \/ DropSenders

\* A task whose select! has settled runs on to its last send: nothing it
\* awaits stands between the two.
RelayFairness == \A c \in Conns : WF_vars(Settle(c))

RelaySpec == RelayInit /\ [][RelayNext]_vars /\ RelayFairness

\* The writer with a store, scheduled fairly: time passes, a ready select!
\* branch is taken, and an insert that was awaited returns.
WriterInit == Init /\ db = TRUE

WriterFairness ==
  /\ WF_vars(DeadlineElapse)
  /\ WF_vars(WriterCheck)
  /\ WF_vars(WriterFlushSize)
  /\ WF_vars(WriterRecvEvent \/ WriterRecvErr \/ WriterDeadline)
  /\ WF_vars(WriterFlushDeadline)
  /\ WF_vars(WriterFlushClose)

WriterSpec == WriterInit /\ [][Next]_vars /\ WriterFairness

\* The aggregation query on its own: a store is open and holds any table
\* of up to MaxRows rows; a query with any window is made.
QueryInit ==
  /\ ProgramInit /\ db = TRUE /\ max_count = MaxBufferCount
  /\ table \in Tables
  /\ QueryIdle

QueryNext == \E start_s, end_s \in Times : Query(start_s, end_s)

QuerySpec == QueryInit /\ [][QueryNext]_vars
\* ------------------------------------------------------------- claims
\* Positions of the published events of connection c of the given kind.
EventsOf(c, kind) ==
  {i \in 1..Len(published) : published[i].conn = c /\ published[i].kind = kind}
Count(c, kind) == Cardinality(EventsOf(c, kind))
AllEventsOf(c) == {i \in 1..Len(published) : published[i].conn = c}
\* The dial of c succeeded / failed.
Dialled(c) == conn_pc[c] \in {"relay", "settle"}
                \/ (conn_pc[c] = "done" /\ ended_by[c] # "none")
DialFailed(c) == conn_pc[c] = "done" /\ ended_by[c] = "none"

\* C1: a connection whose dial succeeded has exactly one ConnectionStarted;
\* once a copy loop has terminated and the relay has settled it has exactly
\* one ConnectionClosed; a Closed is published only after a loop terminated;
\* there is never a second Started or Closed.
C1_OneStartedOneClosed ==
  \A c \in Conns :
    /\ Count(c, "ConnectionStarted") <= 1
    /\ Count(c, "ConnectionClosed") <= 1
    /\ Dialled(c) => Count(c, "ConnectionStarted") = 1
    /\ (conn_pc[c] = "done" /\ ended_by[c] # "none")
         <=> Count(c, "ConnectionClosed") = 1
    /\ conn_pc[c] = "settle" => ENABLED Settle(c)

C1_Witness ==
  \E c \in Conns :
    /\ conn_pc[c] = "done"
    /\ ended_by[c] = "read_err"
    /\ Count(c, "ConnectionStarted") = 1
    /\ Count(c, "ConnectionClosed") = 1

\* C2: the counters of a connection's ConnectionClosed equal the bytes its
\* reads returned from the client and from the remote, also when the write
\* that followed a read failed or was abandoned.
C2_ClosedCountersAreBytesRead ==
  \A i \in 1..Len(published) :
    published[i].kind = "ConnectionClosed" =>
      /\ published[i].bytes_from_to = read_total[published[i].conn]["a_to_b"]
      /\ published[i].bytes_to_from = read_total[published[i].conn]["b_to_a"]

C2_Witness ==
  \E i \in 1..Len(published) :
    /\ published[i].kind = "ConnectionClosed"
    /\ published[i].bytes_from_to = 2
    /\ published[i].bytes_to_from = 1
    /\ ended_by[published[i].conn] = "write_err"

\* C3: a connection whose dial failed has published exactly one event, the
\* ConnectionError with the captured client address and the dial error
\* text; it takes no further step (no retry); and a connection that has
\* published a ConnectionError is one whose dial failed.
C3_DialFailureOnlyError ==
  \A c \in Conns :
    /\ DialFailed(c) =>
         /\ Count(c, "ConnectionError") = 1
         /\ \A i \in AllEventsOf(c) :
              published[i] = ConnectionError(c, from_peer[c], "dial error")
         /\ ~ENABLED handle_connection(c)
    /\ Count(c, "ConnectionError") >= 1 => DialFailed(c)

C3_Witness ==
  \E c \in Conns :
    /\ DialFailed(c)
    /\ from_peer[c] # NoAddr
    /\ \E i \in 1..Len(published) :
         published[i] = ConnectionError(c, from_peer[c], "dial error")
TimeoutsOf(c, d) ==
  {i \in EventsOf(c, "ConnectionTimeout") : published[i].error = TimeoutText(d)}
\* The pending read of direction d got no bytes within the idle timeout.
IdleTimedOut(c, d) == loop_st[c][d] = "read" /\ idle_expired[c][d]

\* C4 as stated: once the race has settled, every direction whose read got
\* no bytes within the idle timeout has exactly one ConnectionTimeout.
C4_Original ==
  \A c \in Conns : \A d \in Dirs :
    (conn_pc[c] = "settle" /\ IdleTimedOut(c, d))
      => Cardinality(TimeoutsOf(c, d)) = 1

\* C4, amended: a connection publishes at most one ConnectionTimeout, namely
\* when the loop that settles the race returned by idle timeout, for the
\* direction of that loop, whose read got no bytes within the idle timeout;
\* it is published before any ConnectionClosed and is followed eventually
\* by exactly one ConnectionClosed.
C4_TimeoutThenClosed ==
  /\ [](\A c \in Conns :
          /\ Count(c, "ConnectionTimeout") <= 1
          /\ Count(c, "ConnectionClosed") <= 1
          /\ ended_by[c] = "timeout" <=> Count(c, "ConnectionTimeout") = 1
          /\ conn_pc[c] = "settle" =>
               /\ Count(c, "ConnectionClosed") = 0
               /\ \E d \in Dirs : IdleTimedOut(c, d)
                                   /\ Cardinality(TimeoutsOf(c, d)) = 1
          /\ \A i \in EventsOf(c, "ConnectionTimeout") :
               \A j \in EventsOf(c, "ConnectionClosed") : i < j)
  /\ \A c \in Conns :
       (Count(c, "ConnectionTimeout") = 1) ~> (Count(c, "ConnectionClosed") = 1)

\* Both directions idle at once, nothing read: one ConnectionTimeout has
\* been published and ConnectionClosed is about to be.
C4_Witness ==
  \E c \in Conns :
    /\ conn_pc[c] = "settle"
    /\ \A d \in Dirs : IdleTimedOut(c, d)
    /\ read_total[c] = [d \in Dirs |-> 0]
    /\ Count(c, "ConnectionTimeout") = 1

\* C5 as stated: every Timeout, Error or Closed of a connection has an
\* earlier Started of the same connection.
C5_Original ==
  \A i \in 1..Len(published) :
    (published[i].conn \in Conns /\ published[i].kind # "ConnectionStarted")
      => \E j \in 1..(i - 1) :
           /\ published[j].conn = published[i].conn
           /\ published[j].kind = "ConnectionStarted"

\* C5, amended: every Timeout or Closed of a connection has an earlier
\* Started of the same connection; a connection's ConnectionError is
\* published only for a failed dial, and then the connection has no Started.
C5_StartedFirst ==
  \A i \in 1..Len(published) :
    LET ev == published[i] IN
    /\ (ev.conn \in Conns /\ ev.kind \in {"ConnectionTimeout", "ConnectionClosed"})
         => \E j \in 1..(i - 1) :
              published[j].conn = ev.conn /\ published[j].kind = "ConnectionStarted"
    /\ (ev.conn \in Conns /\ ev.kind = "ConnectionError")
         => Count(ev.conn, "ConnectionStarted") = 0

C5_Witness ==
  \E c \in Conns : \E i, j, k \in 1..Len(published) :
    /\ i < j /\ j < k
    /\ published[i] = ConnectionStarted(c, from_peer[c])
    /\ published[j].conn = c /\ published[j].kind = "ConnectionTimeout"
    /\ published[k].conn = c /\ published[k].kind = "ConnectionClosed"
\* C6 as stated: the writer stops (leaves its loop) only when the bus is
\* closed.
C6_Original == writer_pc \in {"flush_close", "stopped"} => closed

\* A publish step of a task is enabled whenever the task stands at it.
PublishEnabled ==
  /\ (listener_pc = "accept" /\ accept_errors < MaxAcceptErrors)
       => ENABLED AcceptErr
  /\ \A c \in Conns :
       /\ conn_pc[c] = "dial" => ENABLED DialOk(c) /\ ENABLED DialErr(c)
       /\ conn_pc[c] = "settle" => ENABLED Settle(c)
       /\ \A d \in Dirs :
            /\ (conn_pc[c] = "relay" /\ loop_st[c][d] = "read")
                 => ENABLED ReadEof(c, d) /\ ENABLED ReadErr(c, d)
            /\ (conn_pc[c] = "relay" /\ IdleTimedOut(c, d))
                 => ENABLED ReadTimeout(c, d)
            /\ (conn_pc[c] = "relay" /\ loop_st[c][d] = "write")
                 => ENABLED WriteErr(c, d)

\* C7: every step of a relay or of the listener that publishes an event can
\* be taken whenever the task stands at it, whatever the writer is doing:
\* not started, behind, inside a store write, or stopped.
C7_PublishNeverBlocks == PublishEnabled

\* The writer is inside a store write, more than the capacity behind.
C7_Witness ==
  /\ writer_pc \in {"flush_size", "flush_deadline"}
  /\ tail_pos - rx_next > BusCapacity

\* C8: as long as the writer's receiver has not lagged, what it has received
\* is exactly the events published after it subscribed, up to its cursor,
\* once each and in publish order; nothing published before the
\* subscription is among them.
C8_ReceivesEachOnceInOrder ==
  (rx_next >= 0 /\ missed = 0) =>
    /\ tail_pos = Len(published)
    /\ rx_next = sub_pos + Len(received)
    /\ received = SubSeq(published, sub_pos + 1, rx_next)

C8_Witness ==
  /\ sub_pos >= 1
  /\ missed = 0
  /\ Len(received) >= 2
  /\ rx_next = tail_pos

\* C9: a receiver more than the capacity behind gets Lagged from its next
\* recv, and the count it is given is the number of events it skips; a
\* receiver within the capacity gets the event at its cursor, although
\* _log_rx, which never receives, is behind by everything; and the publish
\* steps stay enabled.
C9_LaggedSignal ==
  /\ rx_next >= 0 =>
       /\ tail_pos - rx_next > BusCapacity => recv_result = "Lagged"
       /\ (rx_next < tail_pos /\ tail_pos - rx_next <= BusCapacity) =>
            /\ recv_result = "Ok"
            /\ buffer[rx_next % BusCapacity].val = published[rx_next + 1]
       /\ rx_next = sub_pos + Len(received) + missed
       /\ received = SubSeq(published, sub_pos + 1, sub_pos + Len(received))
       /\ stop_cause = "Lagged" => missed >= 1
  /\ PublishEnabled

\* The writer got Lagged, and an event was published after that.
C9_Witness ==
  /\ stop_cause = "Lagged"
  /\ missed >= 1
  /\ tail_pos > rx_next + BusCapacity

\* The rows of a sequence of events.
RowsOf(evs) == [i \in 1..Len(evs) |-> RowOf(evs[i])]

\* C10: the writer gets Closed only at the tail of a closed bus, having
\* received every event published since it subscribed; it then flushes a
\* non-empty batch and stops; with no failed insert, the store then holds
\* the row of every such event.
C10_LosslessShutdown ==
  /\ stop_cause = "Closed" =>
       /\ closed
       /\ rx_next = tail_pos
       /\ received = SubSeq(published, sub_pos + 1, Len(published))
  /\ writer_pc = "flush_close" => buf # <<>>
  /\ (writer_pc = "stopped" /\ stop_cause = "Closed" /\ ~flush_failed)
       => store = RowsOf(SubSeq(published, sub_pos + 1, Len(published)))

C10_Witness ==
  /\ writer_pc = "stopped"
  /\ stop_cause = "Closed"
  /\ ~flush_failed
  /\ Len(store) >= 3
  /\ max_count = 2

\* C11 as stated: whenever the size check runs, the batch holds at most
\* max_buffer_count rows, for every max_buffer_count from 0 up.
C11_Original == writer_pc = "check" => Len(buf) <= max_count

\* C11, amended: whenever the size check runs (and at every other moment)
\* the batch holds at most max_buffer_count rows when max_buffer_count >= 1,
\* and at most the one row just received when max_buffer_count = 0.
C11_BatchBound ==
  /\ max_count >= 1 => Len(buf) <= max_count
  /\ max_count = 0 => Len(buf) <= 1
  /\ writer_pc = "select" => (Len(buf) < max_count \/ buf = <<>>)

\* The size check runs on a batch that has just reached max_buffer_count.
C11_Witness ==
  /\ writer_pc = "check"
  /\ max_count = MaxBufferCount
  /\ Len(buf) = max_count

\* C12 as stated (second half): a flush never happens before the deadline
\* unless the size threshold or bus closure triggers it.
C12_Original ==
  /\ writer_pc = "flush_deadline" => deadline_elapsed
  /\ writer_pc = "flush_close" => (stop_cause = "Closed" \/ deadline_elapsed)

\* The liveness half of C12, under WriterSpec: a batch that holds a row is
\* flushed (and cleared) without any further event being needed.
C12_DeadlineFlush == (buf # <<>>) ~> (buf = <<>>)

\* Index in `received` of the event of the last row of flush attempt i.
FlushEnd(i) == flushes[i].first + Len(flushes[i].rows) - 1
\* The store's length after flush attempt i.
StoreAfter(i) == IF i < Len(flushes) THEN flushes[i + 1].at ELSE Len(store)
\* This step is a size or deadline flush whose insert returned Err.
FailedFlushStep ==
  /\ Len(flushes') = Len(flushes) + 1
  /\ ~flushes'[Len(flushes')].ok
  /\ flushes'[Len(flushes')].trigger \in {"size", "deadline"}

\* C13: a failed flush leaves the store as it was, its rows are in no later
\* flush attempt and the batch in hand starts after them; the step of the
\* failed flush leaves the writer in its loop with an empty batch and
\* changes nothing a relay, the listener or the bus can see; the writer
\* stops only on a receive error.
C13_FailedBatchDropped ==
  /\ [](/\ \A i \in 1..Len(flushes) :
            /\ \A j \in (i + 1)..Len(flushes) : FlushEnd(i) < flushes[j].first
            /\ Len(received) - Len(buf) >= FlushEnd(i)
            /\ ~flushes[i].ok => StoreAfter(i) = flushes[i].at
        /\ flush_failed <=> \E i \in 1..Len(flushes) : ~flushes[i].ok
        /\ writer_pc = "stopped" => stop_cause # "none")
  /\ [][FailedFlushStep =>
         /\ buf' = <<>>
         /\ writer_pc' \in {"check", "select"}
         /\ UNCHANGED <<listenerVars, relayVars, busVars>>]_vars

\* A size flush failed; the writer went on, and the next batch, of later
\* events only, is what the store holds.
C13_Witness ==
  /\ Len(flushes) = 2
  /\ ~flushes[1].ok
  /\ flushes[1].trigger = "size"
  /\ Len(flushes[1].rows) = 2
  /\ flushes[2].ok
  /\ store = flushes[2].rows
  /\ writer_pc = "select"

\* C14: after every flush attempt the store holds, behind what it held
\* before, either the whole batch in order (the insert returned Ok) or
\* nothing of it (the insert returned Err, at whichever row or at the
\* commit); rows once stored stay where they are.
C14_AllOrNothing ==
  \A i \in 1..Len(flushes) :
    LET a == flushes[i] IN
    /\ a.rows # <<>>
    /\ a.at <= StoreAfter(i)
    /\ StoreAfter(i) <= Len(store)
    /\ a.ok => SubSeq(store, a.at + 1, StoreAfter(i)) = a.rows
    /\ ~a.ok => StoreAfter(i) = a.at

\* A batch of two rows failed and left nothing; a later batch of two rows
\* is stored whole.
C14_Witness ==
  \E i, j \in 1..Len(flushes) :
    /\ i < j
    /\ ~flushes[i].ok /\ Len(flushes[i].rows) = 2
    /\ flushes[j].ok /\ Len(flushes[j].rows) = 2
    /\ store = flushes[j].rows

\* Scenario D: max_buffer_count is 2, the writer subscribed before the first
\* of three published events and has skipped none, and no deadline flush
\* was started before the third event was in the batch.
ScenarioD ==
  /\ max_count = 2
  /\ sub_pos = 0
  /\ Len(published) = 3
  /\ missed = 0
  /\ \A i \in 1..Len(flushes) :
       flushes[i].trigger = "deadline" => FlushEnd(i) = 3

\* C15: in scenario D there are never more than two flush attempts; the
\* first is the size flush of the rows of the first two events, the second
\* holds the row of the third event alone and is triggered by the deadline
\* or by bus closure; and once the three events are received and the batch
\* is empty again, both have happened.
C15_TwoFlushes ==
  ScenarioD =>
    /\ Len(flushes) <= 2
    /\ Len(flushes) >= 1 =>
         /\ flushes[1].trigger = "size"
         /\ flushes[1].first = 1
         /\ flushes[1].rows = RowsOf(SubSeq(published, 1, 2))
    /\ Len(flushes) = 2 =>
         /\ flushes[2].trigger \in {"deadline", "Closed"}
         /\ flushes[2].first = 3
         /\ flushes[2].rows = RowsOf(SubSeq(published, 3, 3))
    /\ (Len(received) = 3 /\ buf = <<>>) => Len(flushes) = 2

\* Scenario D has run to its end: two rows stored by the size flush, the
\* third by the deadline flush.
C15_Witness ==
  /\ ScenarioD
  /\ Len(flushes) = 2
  /\ flushes[2].trigger = "deadline"
  /\ flushes[1].ok /\ flushes[2].ok
  /\ store = RowsOf(published)

\* Row r is the row of event e: the kind of the variant, the envelope (here
\* the connection and the client address) copied, the counters of a Closed
\* event and zeros for the other variants.
Traces(r, e) ==
  /\ <<e.kind, r.log_name>> \in
       {<<"ConnectionStarted", "connection_started">>,
        <<"ConnectionClosed", "connection_closed">>,
        <<"ConnectionError", "connection_error">>,
        <<"ConnectionTimeout", "connection_timeout">>}
  /\ r.conn = e.conn
  /\ r.client_addr = e.client_addr
  /\ e.kind = "ConnectionClosed" =>
       r.bytes_from_to = e.bytes_from_to /\ r.bytes_to_from = e.bytes_to_from
  /\ e.kind # "ConnectionClosed" => r.bytes_from_to = 0 /\ r.bytes_to_from = 0
\* Where the batch in hand starts in `received`.
BufFirst == Len(received) - Len(buf) + 1

\* C16: the flush attempts and the batch in hand split the received events,
\* in order, into consecutive ranges with one row per event, and each row is
\* the row of its event; until the writer leaves its loop no received event
\* is without a row; every row of the store lies in exactly one flush
\* attempt that returned Ok, at the place of its event.
C16_RowPerEvent ==
  /\ \A i \in 1..Len(flushes) :
       /\ flushes[i].first = IF i = 1 THEN 1 ELSE FlushEnd(i - 1) + 1
       /\ FlushEnd(i) <= Len(received)
       /\ \A k \in 1..Len(flushes[i].rows) :
            Traces(flushes[i].rows[k], received[flushes[i].first + k - 1])
  /\ \A k \in 1..Len(buf) : Traces(buf[k], received[BufFirst + k - 1])
  /\ writer_pc # "stopped" =>
       BufFirst = IF flushes = <<>> THEN 1 ELSE FlushEnd(Len(flushes)) + 1
  /\ \A n \in 1..Len(store) :
       /\ Cardinality({i \in 1..Len(flushes) :
                         /\ flushes[i].ok
                         /\ flushes[i].at < n
                         /\ n <= flushes[i].at + Len(flushes[i].rows)}) = 1
       /\ \A i \in 1..Len(flushes) :
            (flushes[i].at < n /\ n <= StoreAfter(i)) =>
              Traces(store[n], received[flushes[i].first + n - flushes[i].at - 1])

\* Events of all four variants were received, the Closed one with counters
\* that are not zero, and their rows are in the store.
C16_Witness ==
  /\ Len(store) = 4
  /\ {received[i].kind : i \in 1..Len(received)} =
       {"ConnectionStarted", "ConnectionClosed", "ConnectionError",
        "ConnectionTimeout"}
  /\ \E n \in 1..Len(store) :
       /\ store[n].log_name = "connection_closed"
       /\ store[n].bytes_from_to + store[n].bytes_to_from > 0

\* The rows of the table inside the window of the last query.
Matching == {i \in 1..Len(table) :
              q_args[1] <= table[i].ts /\ table[i].ts < q_args[2]}
RECURSIVE SetSum(_, _)
SetSum(I, col) ==
  IF I = {} THEN 0
  ELSE LET i == CHOOSE x \in I : TRUE IN table[i][col] + SetSum(I \ {i}, col)

\* C17: after query_traffic_by_client(t0, t1), every client address with a
\* row of t0 <= ts < t1 has an entry whose two sums are the sums of the
\* counters of exactly its rows in the window; with no row in the window
\* (as when t0 = t1) the result is the empty sequence.
C17_WindowSums ==
  q_args # <<>> =>
    /\ \A a \in QueryAddrs :
         LET mine == {i \in Matching : table[i].client_addr = a} IN
         mine # {} =>
           \E k \in 1..Len(q_result) :
             /\ q_result[k].client_addr = a
             /\ q_result[k].bytes_from_to = SetSum(mine, "bytes_from_to")
             /\ q_result[k].bytes_to_from = SetSum(mine, "bytes_to_from")
    /\ Matching = {} => q_result = <<>>
    /\ q_args[1] = q_args[2] => q_result = <<>>

\* A client has two rows inside the window and one outside; its entry sums
\* the two.
C17_Witness ==
  /\ q_args = <<1, 3>>
  /\ Len(table) = 3
  /\ \A i \in 1..3 : table[i].client_addr = "10.0.0.1"
                      /\ table[i].bytes_from_to = 1
  /\ Cardinality(Matching) = 2
  /\ Len(q_result) = 1
  /\ q_result[1].bytes_from_to = 2

\* C18: the result has exactly one entry for each client address with a row
\* in the window, None being one such address, no other entry, and the
\* combined totals do not increase along it.
C18_OnePerClientDescending ==
  q_args # <<>> =>
    /\ \A a \in {table[i].client_addr : i \in Matching} :
         Cardinality({k \in 1..Len(q_result) : q_result[k].client_addr = a}) = 1
    /\ \A k \in 1..Len(q_result) :
         q_result[k].client_addr \in {table[i].client_addr : i \in Matching}
    /\ \A k \in 1..(Len(q_result) - 1) :
         q_result[k].bytes_from_to + q_result[k].bytes_to_from
           >= q_result[k + 1].bytes_from_to + q_result[k + 1].bytes_to_from

\* Two rows without client address form one entry, which comes first
\* although the other client has the larger client-to-remote sum.
C18_Witness ==
  /\ Len(q_result) = 2
  /\ Cardinality(Matching) = 3
  /\ q_result[1].client_addr = NoAddr
  /\ q_result[1].bytes_from_to = 0
  /\ q_result[1].bytes_to_from = 2
  /\ q_result[2].bytes_from_to = 1
  /\ q_result[2].bytes_to_from = 0

\* C19: the listener's events are one ConnectionError without client address
\* per failed accept(); the step of a failed accept() publishes that event,
\* spawns no relay and leaves the listener accepting; relays are spawned by
\* successful accepts only; and a listener that has seen failures still
\* accepts, so the next connection is taken.
C19_AcceptFailureNotFatal ==
  /\ [](/\ Count(0, "ConnectionError") = accept_errors
        /\ \A i \in AllEventsOf(0) :
             published[i] = ConnectionError(0, NoAddr, "accept error")
        /\ spawned = Cardinality({c \in Conns : conn_pc[c] # "unborn"})
        /\ accept_errors >= 1 => listener_pc \in {"accept", "stopped"}
        /\ (accept_errors >= 1 /\ ~closed /\ spawned < MaxConns)
             => ENABLED AcceptOk)
  /\ [][accept_errors' # accept_errors =>
         /\ published' =
              Append(published, ConnectionError(0, NoAddr, "accept error"))
         /\ UNCHANGED <<listener_pc, spawned, relayVars>>]_vars

\* An accept failed, and the connection accepted after it was relayed from
\* ConnectionStarted to ConnectionClosed with bytes in both directions.
C19_Witness ==
  \E c \in Conns : \E i, j, k \in 1..Len(published) :
    /\ i < j /\ j < k
    /\ published[i] = ConnectionError(0, NoAddr, "accept error")
    /\ published[j] = ConnectionStarted(c, from_peer[c])
    /\ published[k].conn = c /\ published[k].kind = "ConnectionClosed"
    /\ published[k].bytes_from_to > 0 /\ published[k].bytes_to_from > 0
    /\ ended_by[c] = "eof"

\* C20: a connection whose relay ended by a failed read or write has
\* finished for good; its last event is the one ConnectionClosed, carrying
\* the bytes read so far in both directions; and no ConnectionError exists
\* for it: every ConnectionError is one of a failed accept or a failed dial.
C20_IoFailureClosesQuietly ==
  /\ \A c \in Conns :
       ended_by[c] \in {"read_err", "write_err"} =>
         /\ conn_pc[c] = "done"
         /\ ~ENABLED handle_connection(c)
         /\ Count(c, "ConnectionClosed") = 1
         /\ Count(c, "ConnectionError") = 0
         /\ \A i \in AllEventsOf(c) :
              (\A j \in AllEventsOf(c) : j <= i) =>
                published[i] = ConnectionClosed(c, from_peer[c],
                                                read_total[c]["a_to_b"],
                                                read_total[c]["b_to_a"])
  /\ Cardinality({i \in 1..Len(published) :
                    published[i].kind = "ConnectionError"})
       = accept_errors + Cardinality({c \in Conns : DialFailed(c)})

\* A read failed after bytes had gone both ways; the relay ended with
\* ConnectionClosed carrying them.
C20_Witness ==
  \E c \in Conns :
    /\ ended_by[c] = "read_err"
    /\ read_total[c]["a_to_b"] = 1
    /\ read_total[c]["b_to_a"] = 2
    /\ \E i \in 1..Len(published) :
         published[i] = ConnectionClosed(c, from_peer[c], 1, 2)

\* The race of connection c is settled: a loop has returned.
Settled(c) ==
  conn_pc[c] = "settle" \/ (conn_pc[c] = "done" /\ ended_by[c] # "none")
\* The last event published for connection c, if any.
LastEventOf(c) ==
  {published[i] :
     i \in {j \in AllEventsOf(c) : \A k \in AllEventsOf(c) : k <= j}}

\* C21: a loop that reads can return (EOF, error, and timeout once its timer
\* has expired) and settle the relay whatever the other loop is doing; once
\* the race is settled no read or write of either loop is possible; a step
\* taken after that changes no counter and no loop, and publishes for the
\* connection nothing but ConnectionClosed; and the last event of a finished
\* relay is its ConnectionClosed.
C21_SettlesOnFirstLoop ==
  /\ [](\A c \in Conns :
          /\ \A d \in Dirs :
               (conn_pc[c] = "relay" /\ loop_st[c][d] = "read") =>
                 /\ ENABLED ReadEof(c, d)
                 /\ ENABLED ReadErr(c, d)
                 /\ idle_expired[c][d] => ENABLED ReadTimeout(c, d)
          /\ Settled(c) =>
               \A d \in Dirs :
                 /\ ~ENABLED (\E n \in 1..MaxBytes : ReadOk(c, d, n))
                 /\ ~ENABLED ReadEof(c, d) /\ ~ENABLED ReadErr(c, d)
                 /\ ~ENABLED ReadTimeout(c, d) /\ ~ENABLED IdleExpire(c, d)
                 /\ ~ENABLED WriteOk(c, d) /\ ~ENABLED WriteErr(c, d)
          /\ (conn_pc[c] = "done" /\ ended_by[c] # "none") =>
               /\ ~ENABLED handle_connection(c)
               /\ LastEventOf(c) = {ClosedEvent(c)})
  /\ [][\A c \in Conns :
          Settled(c) =>
            /\ bytes_from_to'[c] = bytes_from_to[c]
            /\ bytes_to_from'[c] = bytes_to_from[c]
            /\ read_total'[c] = read_total[c]
            /\ (published' # published /\ published'[Len(published')].conn = c)
                 => /\ conn_pc[c] = "settle"
                    /\ published' = Append(published, ClosedEvent(c))]_vars

\* One direction timed out and settled the race while the other, having
\* read bytes, was inside its write.
C21_Witness ==
  \E c \in Conns :
    /\ conn_pc[c] = "settle"
    /\ loop_st[c]["b_to_a"] = "write"
    /\ read_total[c]["b_to_a"] > 0
    /\ Cardinality(TimeoutsOf(c, "a_to_b")) = 1

\* This step publishes the ConnectionTimeout of direction d of connection c.
PublishesTimeout(c, d) ==
  /\ Len(published') = Len(published) + 1
  /\ published'[Len(published')] =
       ConnectionTimeout(c, from_peer[c], TimeoutText(d))

\* C22: an idle timer exists only for a pending read: a loop inside a write
\* has none, and none can expire there; every read starts with a timer that
\* has not expired, after a successful read as well as after the write that
\* followed it; and ConnectionTimeout of a direction is published only by a
\* step that finds that direction's pending read with its timer expired.
C22_TimeoutPerRead ==
  /\ [](\A c \in Conns : \A d \in Dirs :
          /\ loop_st[c][d] = "write" =>
               /\ ~idle_expired[c][d]
               /\ ~ENABLED IdleExpire(c, d)
               /\ ~ENABLED ReadTimeout(c, d)
          /\ (conn_pc[c] = "relay" /\ loop_st[c][d] = "read"
                /\ ~idle_expired[c][d]) => ~ENABLED ReadTimeout(c, d)
          /\ TimeoutsOf(c, d) # {} => ended_by[c] = "timeout")
  /\ [][\A c \in Conns : \A d \in Dirs :
          /\ loop_st'[c][d] # loop_st[c][d] => ~idle_expired'[c][d]
          /\ read_total'[c][d] # read_total[c][d] => ~idle_expired'[c][d]
          /\ PublishesTimeout(c, d) =>
               /\ conn_pc[c] = "relay"
               /\ loop_st[c][d] = "read"
               /\ idle_expired[c][d]]_vars

\* A direction has had reads succeed up to MaxBytes and waits in a new read
\* with a fresh timer, the other direction is inside a write, and no
\* ConnectionTimeout has been published.
C22_Witness ==
  \E c \in Conns :
    /\ conn_pc[c] = "relay"
    /\ loop_st[c]["a_to_b"] = "read"
    /\ ~idle_expired[c]["a_to_b"]
    /\ read_total[c]["a_to_b"] = MaxBytes
    /\ loop_st[c]["b_to_a"] = "write"
    /\ Count(c, "ConnectionTimeout") = 0

\* C23: the step that appends a row is followed by the size check; a batch
\* that has reached max_buffer_count goes from the check into the size
\* flush and nowhere else, and until that flush has returned the writer can
\* neither receive nor handle the deadline; the flush attempt holds exactly
\* that batch, and its return leaves the batch empty, the deadline not
\* elapsed, and the writer at its select!.
C23_SizeFlushFirst ==
  /\ [](/\ writer_pc \in {"check", "flush_size"} =>
             /\ ~ENABLED WriterRecvEvent
             /\ ~ENABLED WriterRecvErr
             /\ ~ENABLED WriterDeadline
        /\ (writer_pc = "check" /\ Len(buf) >= max_count)
             => ENABLED WriterCheck
        /\ writer_pc = "flush_size" =>
             (Len(buf) >= max_count /\ ENABLED WriterFlushSize))
  /\ [][/\ Len(buf') > Len(buf) => writer_pc' = "check"
        /\ (writer_pc = "check" /\ Len(buf) >= max_count
              /\ writer_pc' # "check") => writer_pc' = "flush_size"
        /\ (writer_pc = "flush_size" /\ writer_pc' # "flush_size") =>
             /\ writer_pc' = "select"
             /\ buf' = <<>>
             /\ ~deadline_elapsed'
             /\ buf # <<>> =>
                  /\ Len(flushes') = Len(flushes) + 1
                  /\ flushes'[Len(flushes')].trigger = "size"
                  /\ flushes'[Len(flushes')].rows = buf]_vars

\* A size flush of two rows has returned: the batch is empty and the
\* deadline new, while a further event has been waiting on the bus.
C23_Witness ==
  /\ writer_pc = "select"
  /\ max_count = 2
  /\ flushes # <<>>
  /\ flushes[Len(flushes)].trigger = "size"
  /\ FlushEnd(Len(flushes)) = Len(received)
  /\ buf = <<>>
  /\ ~deadline_elapsed
  /\ rx_next < tail_pos

\* The rows of the flush attempts 1..k that returned Ok, in attempt order,
\* each batch as the rows of its events in the order they were received.
RECURSIVE StoredUpTo(_)
StoredUpTo(k) ==
  IF k = 0 THEN <<>>
  ELSE StoredUpTo(k - 1) \o
         (IF flushes[k].ok
          THEN RowsOf(SubSeq(received, flushes[k].first, FlushEnd(k)))
          ELSE <<>>)

\* C24: the store is the batches of the successful flush attempts one after
\* the other, an earlier attempt's rows before a later one's, each batch in
\* the order in which its events were received.
C24_StoreInReceiveOrder ==
  /\ store = StoredUpTo(Len(flushes))
  /\ \A i \in 1..Len(flushes) :
       /\ flushes[i].rows =
            RowsOf(SubSeq(received, flushes[i].first, FlushEnd(i)))
       /\ \A j \in (i + 1)..Len(flushes) :
            /\ flushes[i].first < flushes[j].first
            /\ StoreAfter(i) <= flushes[j].at

\* Two batches of two rows each have been stored, one after the other.
C24_Witness ==
  /\ Len(flushes) = 2
  /\ \A i \in 1..2 : flushes[i].ok /\ Len(flushes[i].rows) = 2
  /\ Len(store) = 4
  /\ store[1] # store[2]
  /\ store = RowsOf(received)

\* This step is the deadline branch of select! taken with an empty batch.
EmptyDeadlineStep ==
  /\ writer_pc = "select"
  /\ writer_pc' = "check"
  /\ received' = received

\* C25: the deadline branch is taken only with the deadline elapsed; with a
\* non-empty batch it leads to the deadline flush, whose return records the
\* attempt with that batch and leaves the batch empty and the deadline new;
\* with an empty batch it changes neither the store nor the record of
\* attempts and leaves the deadline new; and no transaction is ever opened
\* for an empty batch: every recorded attempt has rows, and a step that
\* changes the store or the record starts from a non-empty batch.
C25_NoEmptyFlush ==
  /\ [](/\ \A i \in 1..Len(flushes) : flushes[i].rows # <<>>
        /\ writer_pc \in {"flush_deadline", "flush_close"} => buf # <<>>
        /\ writer_pc = "flush_deadline" => deadline_elapsed
        /\ (writer_pc = "select" /\ deadline_elapsed) => ENABLED WriterDeadline)
  /\ [][/\ EmptyDeadlineStep =>
             /\ buf = <<>> /\ buf' = <<>>
             /\ deadline_elapsed /\ ~deadline_elapsed'
             /\ UNCHANGED <<store, flushes, flush_failed>>
        /\ (writer_pc = "select" /\ writer_pc' = "flush_deadline") =>
             (buf # <<>> /\ UNCHANGED <<buf, store, flushes>>)
        /\ (writer_pc = "flush_deadline" /\ writer_pc' # "flush_deadline") =>
             /\ flushes' # flushes
             /\ flushes'[Len(flushes')].trigger = "deadline"
             /\ flushes'[Len(flushes')].rows = buf
             /\ buf' = <<>>
             /\ ~deadline_elapsed'
             /\ writer_pc' = "check"
        /\ (store' # store \/ flushes' # flushes \/ flush_failed' # flush_failed)
             => buf # <<>>]_vars

\* max_buffer_count is 0: after the flush of the first row the deadline
\* branch ran with an empty batch, and the size check now sends the empty
\* batch to insert_connection_rows; the one attempt on record is the first.
C25_Witness ==
  /\ max_count = 0
  /\ writer_pc = "flush_size"
  /\ buf = <<>>
  /\ Len(received) = 1
  /\ Len(flushes) = 1

\* C26: with a store, nothing is published before the writer's receiver is
\* subscribed: while main has spawned the listeners and not yet subscribed,
\* no event has been handed to the bus, and the subscription, once made,
\* starts before the first published event.
C26_Original ==
  db =>
    /\ main_pc = "spawn_writer" => published = <<>>
    /\ sub_pos >= 0 => sub_pos = 0

\* C27: over all its directions together a connection has at most one
\* ConnectionTimeout published; with the timers of both directions expired
\* either loop can be the one that returns; the step that publishes a
\* ConnectionTimeout is the first to do so for the connection and settles
\* the race; and once the race is settled no loop can publish another,
\* whatever timers had expired.
C27_OneTimeoutPerConnection ==
  /\ [](\A c \in Conns :
          /\ Cardinality(UNION {TimeoutsOf(c, d) : d \in Dirs}) <= 1
          /\ EventsOf(c, "ConnectionTimeout")
               = UNION {TimeoutsOf(c, d) : d \in Dirs}
          /\ (conn_pc[c] = "relay" /\ \A d \in Dirs : IdleTimedOut(c, d)) =>
               \A d \in Dirs : ENABLED ReadTimeout(c, d)
          /\ conn_pc[c] \in {"settle", "done"} =>
               \A d \in Dirs : ~ENABLED ReadTimeout(c, d))
  /\ [][\A c \in Conns : \A d \in Dirs :
          PublishesTimeout(c, d) =>
            /\ EventsOf(c, "ConnectionTimeout") = {}
            /\ conn_pc[c] = "relay"
            /\ conn_pc'[c] = "settle"]_vars

\* The timers of both directions had expired; the remote -> client loop
\* returned first and published, the client -> remote loop has published
\* nothing and is about to be dropped with its timer expired.
C27_Witness ==
  \E c \in Conns :
    /\ conn_pc[c] = "settle"
    /\ IdleTimedOut(c, "a_to_b")
    /\ TimeoutsOf(c, "a_to_b") = {}
    /\ Cardinality(TimeoutsOf(c, "b_to_a")) = 1

\* The flush attempts that hold the row of the k-th received event.
AttemptsOf(k) ==
  {i \in 1..Len(flushes) : flushes[i].first <= k /\ k <= FlushEnd(i)}
\* The places of the store written from the k-th received event.
StoredFrom(k) ==
  {n \in 1..Len(store) :
     \E i \in AttemptsOf(k) :
       /\ flushes[i].ok
       /\ n = flushes[i].at + (k - flushes[i].first) + 1}
\* This step is the return of a flush attempt.
FlushStep == Len(flushes') = Len(flushes) + 1

\* C28: the row of every received event is in at most one flush attempt,
\* whatever triggered the attempts and however they ended, and is stored at
\* most once, the store being no longer than what successful attempts
\* account for; a row in the batch in hand is in no attempt yet; the step of
\* a flush attempt takes the whole batch and leaves the batch empty, and
\* after the flush on the way out of the loop no further attempt follows.
C28_RowInOneFlush ==
  /\ [](/\ \A k \in 1..Len(received) :
            /\ Cardinality(AttemptsOf(k)) <= 1
            /\ Cardinality(StoredFrom(k)) <= 1
            /\ k >= BufFirst => AttemptsOf(k) = {}
        /\ \A n \in 1..Len(store) :
             \E k \in 1..Len(received) : n \in StoredFrom(k)
        /\ writer_pc = "stopped" =>
             (~ENABLED WriterFlushSize /\ ~ENABLED WriterFlushDeadline
                /\ ~ENABLED WriterFlushClose))
  /\ [][FlushStep =>
         /\ flushes'[Len(flushes')].rows = buf
         /\ flushes'[Len(flushes')].first = BufFirst
         /\ buf' = <<>>
         /\ received' = received
         /\ flushes'[Len(flushes')].trigger \in {"Closed", "Lagged"}
              => writer_pc' = "stopped"]_vars

\* A deadline flush that failed, a size flush and the flush at bus closure,
\* one after the other over four received events; three rows are stored.
C28_Witness ==
  /\ max_count = 2
  /\ Len(flushes) = 3
  /\ flushes[1].trigger = "deadline" /\ ~flushes[1].ok
  /\ flushes[2].trigger = "size" /\ flushes[2].ok
  /\ flushes[3].trigger = "Closed" /\ flushes[3].ok
  /\ Len(received) = 4
  /\ Len(store) = 3
  /\ writer_pc = "stopped"
=============================================================================
